---- MODULE Spec2Model ----
(***************************************************************************)
(* A model of the clearskies example applications: the users resource of   *)
(* example_2_business_logic / example_3_tests (public, with the            *)
(* BusinessEmail column) and the secret-bearer protected users resource    *)
(* of src/users.  The column and handler configuration and the             *)
(* BusinessEmail column are translated from the sources; the request       *)
(* engine they are plugged into (clearskies itself) is modelled from the   *)
(* specification and from what the repository's tests expect of it.        *)
(***************************************************************************)
EXTENDS Integers, Sequences, FiniteSets, TLC

VARIABLES
    rows,      \* the backend table: id -> stored row (column name -> value)
    nextId,    \* the backend's auto-increment counter
    now,       \* the injected clock
    req,       \* the request handled last
    resp,      \* the response to it
    calls,     \* what the last request did: backend calls, lookup calls
    arg,       \* unit level: the argument a column method is applied to
    result     \* unit level: what the method returned

vars == <<rows, nextId, now, req, resp, calls, arg, result>>

(***************************************************************************)
(* Bounds of the model.                                                    *)
(***************************************************************************)
MaxPrefixLen == 2
MaxPad == 1
MaxId == 2
MaxClock == 1
MaxStart == 2

(***************************************************************************)
(* Python values.  A string is a sequence of one-character strings.        *)
(***************************************************************************)
None == [t |-> "none", s |-> <<>>, n |-> 0]
StrV(s) == [t |-> "str", s |-> s, n |-> 0]
IntV(n) == [t |-> "int", s |-> <<>>, n |-> n]
Time(n) == [t |-> "datetime", s |-> <<>>, n |-> n]
IsStr(v) == v.t = "str"

RECURSIVE SeqsUpTo(_, _)
SeqsUpTo(S, n) ==
    IF n = 0 THEN {<<>>}
    ELSE LET shorter == SeqsUpTo(S, n - 1)
         IN  shorter \cup {Append(s, c) : s \in shorter, c \in S}

Whitespace == {" ", "\t"}

\* str.strip(): leading and trailing whitespace removed
RECURSIVE LStrip(_)
LStrip(s) == IF s # <<>> /\ Head(s) \in Whitespace THEN LStrip(Tail(s)) ELSE s
RECURSIVE RStrip(_)
RStrip(s) ==
    IF s # <<>> /\ s[Len(s)] \in Whitespace THEN RStrip(SubSeq(s, 1, Len(s) - 1)) ELSE s
Strip(s) == RStrip(LStrip(s))

\* s[-k:]: the last k characters, the whole string when it is shorter
SliceLast(s, k) == IF Len(s) >= k THEN SubSeq(s, Len(s) - k + 1, Len(s)) ELSE s

\* {**a, **b}
Merge(a, b) ==
    [k \in DOMAIN a \cup DOMAIN b |-> IF k \in DOMAIN b THEN b[k] ELSE a[k]]

(***************************************************************************)
(* clearskies.column_types.Email: the base check BusinessEmail extends.    *)
(* One "@", no whitespace, a non-empty local part and a domain with a dot  *)
(* that has something on both sides.                                       *)
(***************************************************************************)
EmailShape(s) ==
    /\ \A i \in 1..Len(s) : s[i] \notin Whitespace
    /\ Cardinality({i \in 1..Len(s) : s[i] = "@"}) = 1
    /\ LET at == CHOOSE i \in 1..Len(s) : s[i] = "@"
       IN  /\ at > 1
           /\ \E d \in (at + 2)..(Len(s) - 1) : s[d] = "."

Email_input_error_for_value(name, value) ==
    IF ~IsStr(value) THEN "Value must be a string for " \o name
    ELSE IF EmailShape(value.s) THEN ""
    ELSE "Invalid email address"

(***************************************************************************)
(* BusinessEmail (example_2_business_logic/users/business_email.py)        *)
(***************************************************************************)
ExampleCom == <<"@", "e", "x", "a", "m", "p", "l", "e", ".", "c", "o", "m">>

\* the domain check left out
BusinessEmail_input_error_for_value_NoDomainCheck(name, value) ==
    Email_input_error_for_value(name, value)

\* a slip in the slice bound: value[-11:]
BusinessEmail_input_error_for_value_ShortSlice(name, value) ==
    LET error == Email_input_error_for_value(name, value)
    IN  IF error # "" THEN error
        ELSE IF SliceLast(value.s, 11) = ExampleCom THEN "Invalid email domain"
        ELSE ""

BusinessEmail_input_error_for_value(name, value) ==
    LET error == Email_input_error_for_value(name, value)
    IN  IF error # "" THEN error
        ELSE IF SliceLast(value.s, 12) = ExampleCom THEN "Invalid email domain"
        ELSE ""

\* Column.check_search_value: the search value is checked as an input value is
BusinessEmail_check_search_value(name, value) ==
    BusinessEmail_input_error_for_value(name, value)

(***************************************************************************)
(* The lookup service behind self._requests.get(url, params={'seed': e}):  *)
(* the JSON document it answers with, a function of the seed.              *)
(***************************************************************************)
CoolCity == <<"c", "o", "o", "l">>
OtherCity == <<"o", "t", "h", "e", "r">>
AwesomeState == <<"a", "w", "e">>
MyCountry == <<"m", "y">>

\* seeds the service fails on: it cannot be reached, it answers with an error
\* document, with no result, with a result that lacks the date of birth
DownSeed == <<"d", "@", "a", ".", "b">>
ErrorSeed == <<"e", "@", "a", ".", "b">>
NobodySeed == <<"n", "@", "a", ".", "b">>
PartialSeed == <<"p", "@", "a", ".", "b">>

\* self._requests.get(...) raises
RequestsGetRaises(seed) == seed = DownSeed

RequestsGetJson(seed) ==
    CASE seed = ErrorSeed -> [error |-> StrV(<<"x">>)]
      [] seed = NobodySeed -> [results |-> << >>]
      [] seed = PartialSeed ->
            [results |-> <<
                [location |-> [city    |-> StrV(CoolCity),
                               state   |-> StrV(AwesomeState),
                               country |-> StrV(MyCountry)]] >>]
      [] OTHER ->
            [results |-> <<
                [location |-> [city    |-> StrV(IF Len(seed) % 2 = 1 THEN CoolCity
                                                ELSE OtherCity),
                               state   |-> StrV(AwesomeState),
                               country |-> StrV(MyCountry)],
                 dob      |-> [age |-> IntV(20 + Len(seed))]] >>]

\* .json()['results'][0] and the four values read from it: a key or an index
\* that is not there raises
LookupRaises(seed) ==
    \/ RequestsGetRaises(seed)
    \/ LET json == RequestsGetJson(seed)
       IN  \/ "results" \notin DOMAIN json
           \/ json.results = << >>
           \/ {"location", "dob"} \ DOMAIN json.results[1] # {}
           \/ {"city", "state", "country"} \ DOMAIN json.results[1].location # {}
           \/ "age" \notin DOMAIN json.results[1].dob

EnrichedKeys == {"city", "state", "country", "age"}

\* change detection: the lookup is skipped when the email is the model's own
BusinessEmail_pre_save_ChangeDetection(name, data, model) ==
    IF name \notin DOMAIN data THEN [raised |-> FALSE, data |-> data, lookups |-> <<>>]
    ELSE IF ~IsStr(data[name]) THEN [raised |-> TRUE, data |-> data, lookups |-> <<>>]
    ELSE IF name \in DOMAIN model /\ model[name] = data[name]
         THEN [raised |-> FALSE, data |-> data, lookups |-> <<>>]
    ELSE LET email == Strip(data[name].s)
             response_data == RequestsGetJson(email).results[1]
         IN  [raised  |-> FALSE,
              data    |-> Merge(data, [city    |-> response_data.location.city,
                                       state   |-> response_data.location.state,
                                       country |-> response_data.location.country,
                                       age     |-> response_data.dob.age]),
              lookups |-> <<email>>]

\* the guard on the key left out: the model's own email is looked up when the
\* data has none
BusinessEmail_pre_save_AlwaysEnrich(name, data, model) ==
    LET source == IF name \in DOMAIN data THEN data ELSE model
    IN  IF name \notin DOMAIN source
        THEN [raised |-> FALSE, data |-> data, lookups |-> <<>>]
        ELSE IF ~IsStr(source[name]) THEN [raised |-> TRUE, data |-> data, lookups |-> <<>>]
        ELSE LET email == Strip(source[name].s)
                 response_data == RequestsGetJson(email).results[1]
             IN  IF email = <<>>
                 THEN [raised  |-> FALSE,
                       data    |-> Merge(data, [city |-> StrV(<<>>), state |-> StrV(<<>>),
                                                country |-> StrV(<<>>), age |-> StrV(<<>>)]),
                       lookups |-> <<>>]
                 ELSE [raised  |-> FALSE,
                       data    |-> Merge(data, [city    |-> response_data.location.city,
                                                state   |-> response_data.location.state,
                                                country |-> response_data.location.country,
                                                age     |-> response_data.dob.age]),
                       lookups |-> <<email>>]

\* the merge forgotten: only the looked-up keys are returned
BusinessEmail_pre_save_DropsData(name, data, model) ==
    IF name \notin DOMAIN data THEN [raised |-> FALSE, data |-> data, lookups |-> <<>>]
    ELSE IF ~IsStr(data[name]) THEN [raised |-> TRUE, data |-> data, lookups |-> <<>>]
    ELSE LET email == Strip(data[name].s)
             response_data == RequestsGetJson(email).results[1]
         IN  IF email = <<>>
             THEN [raised  |-> FALSE,
                   data    |-> [city |-> StrV(<<>>), state |-> StrV(<<>>),
                                country |-> StrV(<<>>), age |-> StrV(<<>>)],
                   lookups |-> <<>>]
             ELSE [raised  |-> FALSE,
                   data    |-> [city    |-> response_data.location.city,
                                state   |-> response_data.location.state,
                                country |-> response_data.location.country,
                                age     |-> response_data.dob.age],
                   lookups |-> <<email>>]

\* a failed lookup caught and taken as no enrichment
BusinessEmail_pre_save_SwallowsFailure(name, data, model) ==
    IF name \notin DOMAIN data THEN [raised |-> FALSE, data |-> data, lookups |-> <<>>]
    ELSE IF ~IsStr(data[name]) THEN [raised |-> TRUE, data |-> data, lookups |-> <<>>]
    ELSE LET email == Strip(data[name].s)
         IN  IF email = <<>> \/ LookupRaises(email)
             THEN [raised  |-> FALSE,
                   data    |-> Merge(data, [city |-> StrV(<<>>), state |-> StrV(<<>>),
                                            country |-> StrV(<<>>), age |-> StrV(<<>>)]),
                   lookups |-> IF email = <<>> THEN <<>> ELSE <<email>>]
             ELSE LET response_data == RequestsGetJson(email).results[1]
                  IN  [raised  |-> FALSE,
                       data    |-> Merge(data, [city    |-> response_data.location.city,
                                                state   |-> response_data.location.state,
                                                country |-> response_data.location.country,
                                                age     |-> response_data.dob.age]),
                       lookups |-> <<email>>]

\* pre_save(data, model): what it returns, or that it raised (data[name].strip()
\* of a value that is no string, the lookup, a key the answer lacks), and the
\* seeds it looked up
BusinessEmail_pre_save(name, data, model) ==
    IF name \notin DOMAIN data THEN [raised |-> FALSE, data |-> data, lookups |-> <<>>]
    ELSE IF ~IsStr(data[name]) THEN [raised |-> TRUE, data |-> data, lookups |-> <<>>]
    ELSE LET email == Strip(data[name].s)
         IN  IF email = <<>>
             THEN [raised  |-> FALSE,
                   data    |-> Merge(data, [city    |-> StrV(<<>>),
                                            state   |-> StrV(<<>>),
                                            country |-> StrV(<<>>),
                                            age     |-> StrV(<<>>)]),
                   lookups |-> <<>>]
             ELSE IF LookupRaises(email)
             THEN [raised |-> TRUE, data |-> data, lookups |-> <<email>>]
             ELSE LET response_data == RequestsGetJson(email).results[1]
                  IN  [raised  |-> FALSE,
                       data    |-> Merge(data, [city    |-> response_data.location.city,
                                                state   |-> response_data.location.state,
                                                country |-> response_data.location.country,
                                                age     |-> response_data.dob.age]),
                       lookups |-> <<email>>]

(***************************************************************************)
(* Column and handler configuration of the two resources.                  *)
(***************************************************************************)
MaximumLength == 255
DefaultLimit == 100

Column(name, type, is_writeable, required, max_length) ==
    [name |-> name, type |-> type, is_writeable |-> is_writeable,
     required |-> required, max_length |-> max_length]

\* registration order swapped: email declared before name
BusinessUser_columns_configuration_Swapped ==
    << Column("email", "business_email", TRUE, TRUE, MaximumLength),
       Column("name", "string", TRUE, TRUE, MaximumLength),
       Column("city", "string", FALSE, FALSE, MaximumLength),
       Column("state", "string", FALSE, FALSE, MaximumLength),
       Column("country", "string", FALSE, FALSE, MaximumLength),
       Column("age", "integer", FALSE, FALSE, 0),
       Column("created", "created", FALSE, FALSE, 0),
       Column("updated", "updated", FALSE, FALSE, 0) >>

\* example_2_business_logic/users/user.py: User.columns_configuration
BusinessUser_columns_configuration ==
    << Column("name", "string", TRUE, TRUE, MaximumLength),
       Column("email", "business_email", TRUE, TRUE, MaximumLength),
       Column("city", "string", FALSE, FALSE, MaximumLength),
       Column("state", "string", FALSE, FALSE, MaximumLength),
       Column("country", "string", FALSE, FALSE, MaximumLength),
       Column("age", "integer", FALSE, FALSE, 0),
       Column("created", "created", FALSE, FALSE, 0),
       Column("updated", "updated", FALSE, FALSE, 0) >>

\* the age taken as text: a value that is no integer passes validation
User_columns_configuration_AgeUnchecked ==
    << Column("name", "string", TRUE, TRUE, MaximumLength),
       Column("email", "email", TRUE, TRUE, MaximumLength),
       Column("age", "string", TRUE, FALSE, 0),
       Column("created", "created", FALSE, FALSE, 0),
       Column("updated", "updated", FALSE, FALSE, 0) >>

\* src/users/user.py: User.columns_configuration
User_columns_configuration ==
    << Column("name", "string", TRUE, TRUE, MaximumLength),
       Column("email", "email", TRUE, TRUE, MaximumLength),
       Column("age", "integer", TRUE, FALSE, 0),
       Column("created", "created", FALSE, FALSE, 0),
       Column("updated", "updated", FALSE, FALSE, 0) >>

Public == [kind |-> "public", secret |-> ""]

\* 'email' missing from the writeable columns
users_api_NameOnly ==
    [columns             |-> BusinessUser_columns_configuration,
     readable_columns    |-> <<"name", "email", "city", "state", "country", "age",
                               "created", "updated">>,
     writeable_columns   |-> <<"name">>,
     searchable_columns  |-> <<"name", "email">>,
     default_sort_column |-> "name",
     authentication      |-> Public]

\* the handler configuration of example_2_business_logic/users/api.py and of
\* example_3_tests/users/applications/users_api.py
users_api ==
    [columns             |-> BusinessUser_columns_configuration,
     readable_columns    |-> <<"name", "email", "city", "state", "country", "age",
                               "created", "updated">>,
     writeable_columns   |-> <<"name", "email">>,
     searchable_columns  |-> <<"name", "email">>,
     default_sort_column |-> "name",
     authentication      |-> Public]

Environment == [users_authentication_secret |-> "s3cret"]

\* the gate left open: public authentication provided instead of the bearer
BindingSpec_provide_authentication_Open == Public

\* src/users/binding_spec.py: BindingSpec.provide_authentication
BindingSpec_provide_authentication ==
    [kind |-> "secret_bearer", secret |-> Environment.users_authentication_secret]

\* src/users/api.py: application
secure_users_api ==
    [columns             |-> User_columns_configuration,
     readable_columns    |-> <<"name", "email", "age", "created", "updated">>,
     writeable_columns   |-> <<"name", "email", "age">>,
     searchable_columns  |-> <<"name", "email", "age">>,
     default_sort_column |-> "name",
     authentication      |-> BindingSpec_provide_authentication]

(***************************************************************************)
(* The engine: validation, lifecycle hooks, persistence, serialization.    *)
(***************************************************************************)
Range(f) == {f[i] : i \in DOMAIN f}

\* a value Python treats as false: None, '', 0
Falsy(v) == v.t = "none" \/ (v.t = "str" /\ v.s = <<>>) \/ (v.t = "int" /\ v.n = 0)

\* a column type's input_error_for_value
InputErrorForValue(col, value) ==
    CASE col.type = "business_email" -> BusinessEmail_input_error_for_value(col.name, value)
      [] col.type = "email" -> Email_input_error_for_value(col.name, value)
      [] col.type = "string" ->
            IF IsStr(value) THEN "" ELSE "Value must be a string for " \o col.name
      [] col.type = "integer" ->
            IF value.t = "int" THEN "" ELSE col.name \o " must be an integer"
      [] OTHER -> ""

\* the Required input requirement
RequiredError(col, data, model) ==
    IF col.name \in DOMAIN data
    THEN IF (IsStr(data[col.name]) /\ Strip(data[col.name].s) = <<>>)
            \/ (~IsStr(data[col.name]) /\ Falsy(data[col.name]))
         THEN "'" \o col.name \o "' is required."
         ELSE ""
    ELSE IF col.name \in DOMAIN model /\ ~Falsy(model[col.name]) THEN ""
    ELSE "'" \o col.name \o "' is required."

\* the MaximumLength input requirement
MaximumLengthError(col, data) ==
    IF /\ col.name \in DOMAIN data
       /\ IsStr(data[col.name])
       /\ Len(data[col.name].s) > col.max_length
    THEN "'" \o col.name \o "' must be at most 255 characters long."
    ELSE ""

\* one column's error for the incoming data: its own check of a value that
\* is there, then its input requirements in turn
ColumnInputError(col, data, model) ==
    LET own == IF col.name \in DOMAIN data /\ ~Falsy(data[col.name])
               THEN InputErrorForValue(col, data[col.name]) ELSE ""
        req_error == IF col.required THEN RequiredError(col, data, model) ELSE ""
        len_error == IF col.max_length > 0 THEN MaximumLengthError(col, data) ELSE ""
    IN  IF own # "" THEN own
        ELSE IF req_error # "" THEN req_error
        ELSE len_error

\* the input_errors mapping: column name -> message, over the writeable columns
InputErrors(cfg, data, model) ==
    LET cols == {c \in Range(cfg.columns) : c.name \in Range(cfg.writeable_columns)}
        bad == {c \in cols : ColumnInputError(c, data, model) # ""}
    IN  [n \in {c.name : c \in bad} |->
            ColumnInputError(CHOOSE c \in bad : c.name = n, data, model)]

\* the part of the body the handler accepts: the writeable columns
AcceptedInput(cfg, body) ==
    [k \in DOMAIN body \cap Range(cfg.writeable_columns) |-> body[k]]

\* one column's pre_save
ColumnPreSave(col, data, model, clock) ==
    CASE col.type = "business_email" -> BusinessEmail_pre_save(col.name, data, model)
      [] col.type = "created" ->
            [raised |-> FALSE, lookups |-> <<>>,
             data |-> IF DOMAIN model = {} THEN Merge(data, [created |-> Time(clock)])
                      ELSE data]
      [] col.type = "updated" ->
            [raised |-> FALSE, lookups |-> <<>>,
             data |-> Merge(data, [updated |-> Time(clock)])]
      [] OTHER -> [raised |-> FALSE, lookups |-> <<>>, data |-> data]

\* the handler's states, in the order a request passes them
Stages ==
    << "ROUTE_RESOLUTION", "AUTHENTICATE", "PARSE_INPUT", "VALIDATE", "PRE_SAVE",
       "PERSIST", "POST_SAVE", "SERIALIZE", "RESPOND" >>

\* the handler's log of one request: a state entered, and a backend or hook
\* call issued and awaited (it returns, or it raises)
Enter(stage) == << [stage |-> stage, event |-> "enter", target |-> ""] >>
Await(stage, target, raised) ==
    << [stage |-> stage, event |-> "call", target |-> target],
       [stage |-> stage, event |-> IF raised THEN "raise" ELSE "return",
        target |-> target] >>

\* the hooks in registration order, each seeing what the earlier ones made;
\* a hook that raises ends the run
RECURSIVE RunPreSave(_, _, _, _, _)
RunPreSave(cols, i, acc, model, clock) ==
    IF i > Len(cols) \/ acc.raised THEN acc
    ELSE LET r == ColumnPreSave(cols[i], acc.data, model, clock)
         IN  RunPreSave(cols, i + 1,
                        [raised |-> r.raised, data |-> r.data,
                         lookups |-> acc.lookups \o r.lookups,
                         log |-> acc.log
                                 \o Await("PRE_SAVE", "pre_save:" \o cols[i].name, r.raised)],
                        model, clock)

PreSave(cfg, data, model, clock) ==
    RunPreSave(cfg.columns, 1,
               [raised |-> FALSE, data |-> data, lookups |-> <<>>,
                log |-> Enter("PRE_SAVE")],
               model, clock)

\* the post_save hooks in registration order, after the commit: no column of
\* these resources overrides the default, which does nothing
RECURSIVE RunPostSave(_, _)
RunPostSave(cols, i) ==
    IF i > Len(cols) THEN <<>>
    ELSE Await("POST_SAVE", "post_save:" \o cols[i].name, FALSE) \o RunPostSave(cols, i + 1)

PostSave(cfg) == Enter("POST_SAVE") \o RunPostSave(cfg.columns, 1)

\* datetime.isoformat()
Digits == <<"0", "1", "2", "3", "4", "5", "6", "7", "8", "9">>
IsoFormat(n) == <<"T", Digits[(n % 10) + 1]>>

\* a column's to_json of a stored row: None for a value that is not there
ToJson(col, row) ==
    IF col.name \notin DOMAIN row THEN None
    ELSE IF row[col.name].t = "datetime" THEN StrV(IsoFormat(row[col.name].n))
    ELSE row[col.name]

\* the ordered data object: id, then the readable columns in registration order
ModelAsJson(cfg, row) ==
    LET cols == SelectSeq(cfg.columns, LAMBDA c : c.name \in Range(cfg.readable_columns))
    IN  <<(<<"id", row["id"]>>)>> \o [i \in 1..Len(cols) |-> <<cols[i].name, ToJson(cols[i], row)>>]

(***************************************************************************)
(* The storage backend's query: filter, sort, paginate.                    *)
(***************************************************************************)
\* the characters of the model in code point order
Chars ==
    << "\t", " ", ".", "0", "1", "2", "3", "4", "5", "6", "7", "8", "9", "@",
       "A", "B", "C", "M", "X",
       "a", "b", "c", "d", "e", "h", "i", "l", "m", "n", "o", "p", "r", "t",
       "w", "x", "y" >>
CodePoint(c) == CHOOSE i \in 1..Len(Chars) : Chars[i] = c

\* Python's s < t on strings
RECURSIVE StrLess(_, _)
StrLess(s, t) ==
    IF t = <<>> THEN FALSE
    ELSE IF s = <<>> THEN TRUE
    ELSE IF Head(s) = Head(t) THEN StrLess(Tail(s), Tail(t))
    ELSE CodePoint(Head(s)) < CodePoint(Head(t))

\* the rows a filter selects: only searchable columns filter, the rest is ignored
Matching(cfg, table, filter) ==
    {i \in DOMAIN table :
        \A k \in DOMAIN filter \cap Range(cfg.searchable_columns) :
            k \in DOMAIN table[i] /\ table[i][k] = filter[k]}

\* ascending by the sort column, ties by id
SortedBefore(table, col, i, j) ==
    \/ StrLess(table[i][col].s, table[j][col].s)
    \/ table[i][col].s = table[j][col].s /\ i < j

Sorted(table, ids, col) ==
    [k \in 1..Cardinality(ids) |->
        CHOOSE i \in ids :
            Cardinality({j \in ids : SortedBefore(table, col, j, i)}) = k - 1]

Min(a, b) == IF a < b THEN a ELSE b

\* the offset taken as a position: the page begins at row start, not after it
Page_FromStart(sorted, start, limit) ==
    SubSeq(sorted, IF start = 0 THEN 1 ELSE start, Min(start + limit, Len(sorted)))

\* the page of a sorted result: rows start+1 .. start+limit of it
Page(sorted, start, limit) ==
    SubSeq(sorted, start + 1, Min(start + limit, Len(sorted)))

(***************************************************************************)
(* The resource handler.                                                   *)
(***************************************************************************)
NoParam == -1
NoId == 0
NoErrors == [n \in {} |-> ""]
NoModel == [n \in {} |-> ""]
NoPagination == [numberResults |-> 0, start |-> 0, limit |-> 0]
NoCalls == [reads |-> 0, writes |-> 0, lookups |-> <<>>, loaded |-> NoModel, log |-> <<>>]

\* the log up to the state a request is turned away in, or served from: the
\* row of an id-bearing request is loaded before VALIDATE, every request that
\* is admitted and finds its row reaches VALIDATE, and a state the operation
\* has nothing to do in (the hooks and the commit of a read) is passed over
Rejected == Enter("ROUTE_RESOLUTION") \o Enter("AUTHENTICATE") \o Enter("RESPOND")
Admitted == Enter("ROUTE_RESOLUTION") \o Enter("AUTHENTICATE") \o Enter("PARSE_INPUT")
Load(target) == Admitted \o Await("PARSE_INPUT", target, FALSE)

Response(status, code, error) ==
    [status |-> status, code |-> code, error |-> error, data |-> <<>>, items |-> <<>>,
     pagination |-> NoPagination, input_errors |-> NoErrors]

\* method and presence of an id segment select the operation
Route(method, id) ==
    CASE method = "GET" /\ id = NoId -> "list"
      [] method = "GET" /\ id # NoId -> "fetch"
      [] method = "POST" /\ id = NoId -> "create"
      [] method \in {"PUT", "PATCH"} /\ id # NoId -> "update"
      [] method = "DELETE" /\ id # NoId -> "delete"
      [] OTHER -> "unknown"

\* the authentication strategy's verdict on the request's bearer token
Authenticate(auth, token) ==
    CASE auth.kind = "public" -> TRUE
      [] auth.kind = "secret_bearer" -> token = auth.secret
      [] OTHER -> FALSE

Outcome(table, id, response, c) ==
    [rows |-> table, nextId |-> id, resp |-> response, calls |-> c]

\* a backend read that raises: the request ends with the generic failure
ReadFailure(table, nid, target) ==
    Outcome(table, nid, Response("failure", 500, ""),
            [NoCalls EXCEPT !.reads = 1,
                            !.log = Admitted \o Await("PARSE_INPUT", target, TRUE)
                                        \o Enter("RESPOND")])

HandleList(cfg, table, nid, r) ==
    LET start == IF r.start = NoParam THEN 0 ELSE r.start
        limit == IF r.limit = NoParam THEN DefaultLimit ELSE r.limit
        sorted == Sorted(table, Matching(cfg, table, r.filter), cfg.default_sort_column)
        page == Page(sorted, start, limit)
    IN  Outcome(table, nid,
                [Response("success", 200, "") EXCEPT
                    !.items = [k \in 1..Len(page) |-> ModelAsJson(cfg, table[page[k]])],
                    !.pagination = [numberResults |-> Len(page), start |-> start,
                                    limit |-> limit]],
                [NoCalls EXCEPT !.reads = 1,
                                !.log = Load("backend.query") \o Enter("VALIDATE")
                                            \o Enter("SERIALIZE")
                                            \o Enter("RESPOND")])

HandleFetch(cfg, table, nid, r) ==
    IF r.id \notin DOMAIN table
    THEN Outcome(table, nid, Response("failure", 404, "NotFound"),
                 [NoCalls EXCEPT !.reads = 1,
                                 !.log = Load("backend.read") \o Enter("RESPOND")])
    ELSE Outcome(table, nid,
                 [Response("success", 200, "") EXCEPT !.data = ModelAsJson(cfg, table[r.id])],
                 [NoCalls EXCEPT !.reads = 1, !.loaded = table[r.id],
                                 !.log = Load("backend.read") \o Enter("VALIDATE")
                                             \o Enter("SERIALIZE")
                                             \o Enter("RESPOND")])

\* validate, run the hooks, persist, serialize: model is the existing row of an
\* update and the empty mapping of a create
HandleWrite(cfg, table, nid, r, model, reads, clock) ==
    LET data == AcceptedInput(cfg, r.body)
        errors == InputErrors(cfg, data, model)
        saved == PreSave(cfg, data, model, clock)
        id == IF DOMAIN model = {} THEN nid ELSE model["id"].n
        row == Merge(Merge(model, saved.data), [id |-> IntV(id)])
        newTable == [i \in DOMAIN table \cup {id} |-> IF i = id THEN row ELSE table[i]]
        parsed == (IF reads = 0 THEN Admitted ELSE Load("backend.read")) \o Enter("VALIDATE")
        commit == IF DOMAIN model = {} THEN "backend.create" ELSE "backend.update"
    IN  IF DOMAIN errors # {}
        THEN Outcome(table, nid,
                     [Response("input_errors", 200, "") EXCEPT !.input_errors = errors],
                     [NoCalls EXCEPT !.reads = reads, !.loaded = model,
                                     !.log = parsed \o Enter("RESPOND")])
        ELSE IF saved.raised
        THEN Outcome(table, nid, Response("failure", 500, ""),
                     [NoCalls EXCEPT !.reads = reads, !.lookups = saved.lookups,
                                     !.loaded = model,
                                     !.log = parsed \o saved.log \o Enter("RESPOND")])
        ELSE IF r.backend # "up"
        THEN Outcome(table, nid, Response("failure", 500, ""),
                     [reads |-> reads, writes |-> 1, lookups |-> saved.lookups,
                      loaded |-> model,
                      log |-> parsed \o saved.log
                                  \o Enter("PERSIST") \o Await("PERSIST", commit, TRUE)
                                  \o Enter("RESPOND")])
        ELSE Outcome(newTable, IF DOMAIN model = {} THEN nid + 1 ELSE nid,
                     [Response("success", 200, "") EXCEPT !.data = ModelAsJson(cfg, row)],
                     [reads |-> reads, writes |-> 1, lookups |-> saved.lookups,
                      loaded |-> model,
                      log |-> parsed \o saved.log
                                  \o Enter("PERSIST") \o Await("PERSIST", commit, FALSE)
                                  \o PostSave(cfg)
                                  \o Enter("SERIALIZE") \o Enter("RESPOND")])

HandleUpdate(cfg, table, nid, r, clock) ==
    IF r.id \notin DOMAIN table
    THEN Outcome(table, nid, Response("failure", 404, "NotFound"),
                 [NoCalls EXCEPT !.reads = 1,
                                 !.log = Load("backend.read") \o Enter("RESPOND")])
    ELSE HandleWrite(cfg, table, nid, r, table[r.id], 1, clock)

HandleDelete(cfg, table, nid, r) ==
    IF r.id \notin DOMAIN table
    THEN Outcome(table, nid, Response("failure", 404, "NotFound"),
                 [NoCalls EXCEPT !.reads = 1,
                                 !.log = Load("backend.read") \o Enter("RESPOND")])
    ELSE IF r.backend # "up"
    THEN Outcome(table, nid, Response("failure", 500, ""),
                 [NoCalls EXCEPT !.reads = 1, !.writes = 1, !.loaded = table[r.id],
                                 !.log = Load("backend.read") \o Enter("VALIDATE")
                                             \o Enter("PERSIST")
                                             \o Await("PERSIST", "backend.delete", TRUE)
                                             \o Enter("RESPOND")])
    ELSE Outcome([i \in DOMAIN table \ {r.id} |-> table[i]], nid,
                 Response("success", 200, ""),
                 [NoCalls EXCEPT !.reads = 1, !.writes = 1, !.loaded = table[r.id],
                                 !.log = Load("backend.read") \o Enter("VALIDATE")
                                             \o Enter("PERSIST")
                                             \o Await("PERSIST", "backend.delete", FALSE)
                                             \o Enter("SERIALIZE") \o Enter("RESPOND")])

\* one request through the handler: route, authenticate, then the operation;
\* a backend that is down fails the first call made to it
Handle(cfg, table, nid, r, clock) ==
    LET op == Route(r.method, r.id)
    IN  IF ~Authenticate(cfg.authentication, r.token)
        THEN Outcome(table, nid, Response("failure", 401, "Unauthenticated"),
                     [NoCalls EXCEPT !.log = Rejected])
        ELSE IF r.backend = "down" /\ op \in {"list", "fetch", "update", "delete"}
        THEN ReadFailure(table, nid,
                         IF op = "list" THEN "backend.query" ELSE "backend.read")
        ELSE CASE op = "list" -> HandleList(cfg, table, nid, r)
               [] op = "fetch" -> HandleFetch(cfg, table, nid, r)
               [] op = "create" -> HandleWrite(cfg, table, nid, r, NoModel, 0, clock)
               [] op = "update" -> HandleUpdate(cfg, table, nid, r, clock)
               [] op = "delete" -> HandleDelete(cfg, table, nid, r)
               [] OTHER -> Outcome(table, nid, Response("failure", 404, "UnknownRoute"),
                                   [NoCalls EXCEPT !.log = Rejected])

(***************************************************************************)
(* The values requests are drawn from.                                     *)
(***************************************************************************)
Conor == <<"C", "o", "n", "o", "r">>
Alice == <<"A", "l", "i", "c", "e">>
SeedEmail == <<"c", "m", "a", "n", "c", "o", "n", "e", "@", "e", "x", "a", "m", "p", "l", "e", ".", "c", "o", "m">>
AliceEmail == <<"a", "l", "i", "c", "e", "@", "e", "x", "a", "m", "p", "l", "e", "2", ".", "c", "o", "m">>
CManEmail == <<"c", "m", "a", "n", "@", "e", "x", "a", "m", "p", "l", "e", "2", ".", "c", "o", "m">>
Malformed == <<"c", "m", "a", "n", "c", "o", "n", "e">>
LongName == [i \in 1..(MaximumLength + 1) |-> "x"]

EmptyMap == [n \in {} |-> None]

NameParts ==
    {EmptyMap, [name |-> StrV(Alice)], [name |-> StrV(<<>>)], [name |-> IntV(5)],
     [name |-> StrV(LongName)]}
EmailParts ==
    {EmptyMap, [email |-> StrV(AliceEmail)], [email |-> StrV(CManEmail)],
     [email |-> StrV(SeedEmail)], [email |-> StrV(Malformed)], [email |-> IntV(5)],
     [email |-> StrV(<<>>)], [email |-> StrV(<<" ">>)]}
\* fields a client may send that the handler does not accept
Extras == [city |-> StrV(<<"X">>), created |-> StrV(<<"T", "9">>), updated |-> StrV(<<"T", "9">>),
           id |-> IntV(9), bogus |-> IntV(1)]

Bodies ==
    {Merge(n, e) : n \in NameParts, e \in EmailParts}
        \cup {Merge(Merge(n, e), Extras) :
                n \in {EmptyMap, [name |-> StrV(Alice)]},
                e \in {EmptyMap, [email |-> StrV(AliceEmail)]}}

SecureBodies ==
    {Merge(Merge(n, e), a) :
        n \in {EmptyMap, [name |-> StrV(Alice)]},
        e \in {EmptyMap, [email |-> StrV(SeedEmail)], [email |-> StrV(Malformed)]},
        a \in {EmptyMap, [age |-> IntV(30)], [age |-> StrV(<<"x">>)]}}

Filters == {EmptyMap, [name |-> StrV(Alice)], [bogus |-> StrV(Alice)]}

NoToken == ""
PublicTokens == {NoToken}
BearerTokens == {NoToken, "s3cret", "wrong"}

\* a request, and the storage backend's condition while it is served: "up",
\* "read_only" (a commit raises) or "down" (every call raises)
Request(method, id, body, token, start, limit, filter) ==
    [method |-> method, id |-> id, body |-> body, token |-> token,
     start |-> start, limit |-> limit, filter |-> filter, backend |-> "up"]

(***************************************************************************)
(* The state machine: one action per operation of the resource.            *)
(***************************************************************************)
\* the table the tests' setUp leaves: one record, created through the backend
SeedRow ==
    [id |-> IntV(1), name |-> StrV(Conor), email |-> StrV(SeedEmail), age |-> IntV(120),
     created |-> Time(0), updated |-> Time(0)]

NoRequest == Request("NONE", NoId, EmptyMap, NoToken, NoParam, NoParam, EmptyMap)
NoResponse == Response("none", 0, "")
Idle == req = NoRequest

Init ==
    /\ rows = (1 :> SeedRow)
    /\ nextId = 2
    /\ now = 0
    /\ req = NoRequest
    /\ resp = NoResponse
    /\ calls = NoCalls
    /\ arg = None
    /\ result = None

\* the handler takes request r through to its response
Serve(cfg, r) ==
    \E o \in {Handle(cfg, rows, nextId, r, now)} :
        /\ rows' = o.rows
        /\ nextId' = o.nextId
        /\ resp' = o.resp
        /\ calls' = o.calls
        /\ req' = r
        /\ UNCHANGED <<now, arg, result>>

List(cfg, tokens) ==
    /\ Idle
    /\ \E start \in {NoParam} \cup 0..MaxStart, limit \in {NoParam, 1, 2},
          filter \in Filters, token \in tokens :
        Serve(cfg, Request("GET", NoId, EmptyMap, token, start, limit, filter))

Fetch(cfg, tokens) ==
    /\ Idle
    /\ \E id \in 1..MaxId, token \in tokens :
        Serve(cfg, Request("GET", id, EmptyMap, token, NoParam, NoParam, EmptyMap))

Create(cfg, bodies, tokens) ==
    /\ Idle
    /\ nextId <= MaxId
    /\ \E body \in bodies, token \in tokens :
        Serve(cfg, Request("POST", NoId, body, token, NoParam, NoParam, EmptyMap))

Update(cfg, bodies, tokens) ==
    /\ Idle
    /\ \E id \in 1..MaxId, body \in bodies, token \in tokens, method \in {"PUT", "PATCH"} :
        Serve(cfg, Request(method, id, body, token, NoParam, NoParam, EmptyMap))

Delete(cfg, tokens) ==
    /\ Idle
    /\ \E id \in 1..MaxId, token \in tokens :
        Serve(cfg, Request("DELETE", id, EmptyMap, token, NoParam, NoParam, EmptyMap))

Unrouted(cfg, tokens) ==
    /\ Idle
    /\ \E route \in {<<"POST", 1>>, <<"PUT", NoId>>, <<"DELETE", NoId>>, <<"OPTIONS", NoId>>},
          token \in tokens :
        Serve(cfg, Request(route[1], route[2], EmptyMap, token, NoParam, NoParam, EmptyMap))

\* the response goes back to the transport adapter and the request's scope ends
Respond ==
    /\ ~Idle
    /\ req' = NoRequest
    /\ resp' = NoResponse
    /\ calls' = NoCalls
    /\ UNCHANGED <<rows, nextId, now, arg, result>>

\* time passes between requests
Tick ==
    /\ Idle
    /\ now < MaxClock
    /\ now' = now + 1
    /\ UNCHANGED <<rows, nextId, req, resp, calls, arg, result>>

Next ==
    \/ List(users_api, PublicTokens)
    \/ Fetch(users_api, PublicTokens)
    \/ Create(users_api, Bodies, PublicTokens)
    \/ Update(users_api, Bodies, PublicTokens)
    \/ Delete(users_api, PublicTokens)
    \/ Unrouted(users_api, PublicTokens)
    \/ Respond
    \/ Tick

Spec == Init /\ [][Next]_vars

\* the secret-bearer protected resource of src/users
NextSecure ==
    \/ List(secure_users_api, BearerTokens)
    \/ Fetch(secure_users_api, BearerTokens)
    \/ Create(secure_users_api, SecureBodies, BearerTokens)
    \/ Update(secure_users_api, SecureBodies, BearerTokens)
    \/ Delete(secure_users_api, BearerTokens)
    \/ Unrouted(secure_users_api, BearerTokens)
    \/ Respond
    \/ Tick

SpecSecure == Init /\ [][NextSecure]_vars

\* the business resource while the lookup service or the backend fails
FaultySeeds == {DownSeed, ErrorSeed, NobodySeed, PartialSeed}

FaultBodies ==
    {Merge(n, e) :
        n \in {EmptyMap, [name |-> StrV(Alice)], [name |-> StrV(<<>>)]},
        e \in {EmptyMap, [email |-> StrV(AliceEmail)], [email |-> StrV(SeedEmail)]}
                \cup {[email |-> StrV(seed)] : seed \in FaultySeeds}}

\* a request served while the backend is not up
Outage(cfg, bodies, tokens) ==
    /\ Idle
    /\ \E route \in {<<"GET", NoId>>, <<"POST", NoId>>}
                        \cup {<<m, id>> : m \in {"GET", "PUT", "DELETE"}, id \in 1..MaxId},
          body \in bodies, token \in tokens, backend \in {"read_only", "down"} :
        /\ route[1] = "GET" => body = EmptyMap
        /\ route[1] = "DELETE" => body = EmptyMap
        /\ Serve(cfg, [Request(route[1], route[2], body, token, NoParam, NoParam, EmptyMap)
                          EXCEPT !.backend = backend])

NextFaults ==
    \/ Create(users_api, FaultBodies, PublicTokens)
    \/ Update(users_api, FaultBodies, PublicTokens)
    \/ Delete(users_api, PublicTokens)
    \/ Outage(users_api, FaultBodies, PublicTokens)
    \/ Respond
    \/ Tick

SpecFaults == Init /\ [][NextFaults]_vars

(***************************************************************************)
(* The BusinessEmail column on its own, as its unit tests drive it.        *)
(***************************************************************************)
EmailAlphabet == {"a", "@", ".", " "}
EmailSuffixes ==
    {<<>>, ExampleCom, <<"@", "e", "x", "a", "m", "p", "l", "e", "2", ".", "c", "o", "m">>, <<"e", "x", "a", "m", "p", "l", "e", ".", "c", "o", "m">>, <<"@", "e", "x", "a", "m", "p", "l", "e", ".", "c", "o">>, <<"@", "b", ".", "c">>, <<"@", "e", "x", "a", "m", "p", "l", "e", ".", "c", "o", "m", " ">>}

EmailInputs ==
    {StrV(p \o x) : p \in SeqsUpTo(EmailAlphabet, MaxPrefixLen), x \in EmailSuffixes}
        \cup {StrV(Malformed), StrV(SeedEmail), StrV(AliceEmail), IntV(5), None}

NotCalled == [op |-> "none", out |-> ""]

InitEmail ==
    /\ rows = (1 :> SeedRow)
    /\ nextId = 2
    /\ now = 0
    /\ req = NoRequest
    /\ resp = NoResponse
    /\ calls = NoCalls
    /\ arg \in EmailInputs
    /\ result = NotCalled

CallInputErrorForValue ==
    /\ result = NotCalled
    /\ result' = [op |-> "input_error_for_value",
                  out |-> BusinessEmail_input_error_for_value("email", arg)]
    /\ UNCHANGED <<rows, nextId, now, req, resp, calls, arg>>

CallCheckSearchValue ==
    /\ result = NotCalled
    /\ result' = [op |-> "check_search_value",
                  out |-> BusinessEmail_check_search_value("email", arg)]
    /\ UNCHANGED <<rows, nextId, now, req, resp, calls, arg>>

NextEmail == CallInputErrorForValue \/ CallCheckSearchValue

SpecEmail == InitEmail /\ [][NextEmail]_vars

Pads == SeqsUpTo(Whitespace, MaxPad)
PreSaveEmails ==
    {StrV(l \o core \o r) :
        l \in Pads, r \in Pads,
        core \in {<<>>, SeedEmail, CManEmail, <<"a", " ", "b">>}}
        \cup {IntV(5)}
Prior ==
    [city |-> StrV(<<"W", "i", "l", "l">>), state |-> StrV(<<"B", "e">>),
     country |-> StrV(<<"C", "l", "o", "b">>), age |-> IntV(20)]

PreSaveInputs ==
    {Merge(Merge(n, e), p) :
        n \in {EmptyMap, [name |-> StrV(Conor)]},
        e \in {EmptyMap} \cup {[email |-> v] : v \in PreSaveEmails},
        p \in {EmptyMap, Prior, [age |-> IntV(20), updated |-> Time(0)]}}

PreSaveNotCalled ==
    [op |-> "none", out |-> [raised |-> FALSE, data |-> EmptyMap, lookups |-> <<>>]]

InitPreSave ==
    /\ rows = (1 :> SeedRow)
    /\ nextId = 2
    /\ now = 0
    /\ req = NoRequest
    /\ resp = NoResponse
    /\ calls = NoCalls
    /\ arg \in PreSaveInputs
    /\ result = PreSaveNotCalled

\* email.pre_save(data, 'model'): the model is not used
CallPreSave ==
    /\ result = PreSaveNotCalled
    /\ result' = [op |-> "pre_save", out |-> BusinessEmail_pre_save("email", arg, EmptyMap)]
    /\ UNCHANGED <<rows, nextId, now, req, resp, calls, arg>>

NextPreSave == CallPreSave

SpecPreSave == InitPreSave /\ [][NextPreSave]_vars

(***************************************************************************)
(* Properties of the BusinessEmail column.                                 *)
(***************************************************************************)
EndsWith(s, suffix) ==
    /\ Len(s) >= Len(suffix)
    /\ \A i \in 1..Len(suffix) : s[Len(s) - Len(suffix) + i] = suffix[i]

ExpectedEmailError(value) ==
    LET base == Email_input_error_for_value("email", value)
    IN  IF base # "" THEN base
        ELSE IF EndsWith(value.s, ExampleCom) THEN "Invalid email domain"
        ELSE ""

\* C8: input_error_for_value and check_search_value return the base email
\* column's error when there is one, otherwise 'Invalid email domain' exactly
\* for a value ending in '@example.com', otherwise the empty string
C8_EmailValidation ==
    result.op \in {"input_error_for_value", "check_search_value"} =>
        /\ result.out = ExpectedEmailError(arg)
        /\ arg = IntV(5) => result.out = "Value must be a string for email"
        /\ arg = StrV(Malformed) => result.out = "Invalid email address"
        /\ arg = StrV(SeedEmail) => result.out = "Invalid email domain"
        /\ arg = StrV(AliceEmail) => result.out = ""

C8_Witness ==
    /\ result.op = "check_search_value"
    /\ arg = StrV(<<"a">> \o ExampleCom)
    /\ result.out = "Invalid email domain"

EnrichmentOf(seed) ==
    LET r == RequestsGetJson(seed).results[1]
    IN  [city |-> r.location.city, state |-> r.location.state,
         country |-> r.location.country, age |-> r.dob.age]

HasEmail(data) == "email" \in DOMAIN data
BlankEmail(data) == HasEmail(data) /\ IsStr(data["email"]) /\ Strip(data["email"].s) = <<>>
NonBlankEmail(data) == HasEmail(data) /\ IsStr(data["email"]) /\ Strip(data["email"].s) # <<>>

\* C9: pre_save changes no key but city, state, country and age; without an
\* email key it returns data as it is and looks nothing up; with a non-blank
\* email it looks up that email once and sets the four keys from the answer
C9_PreSaveFrame ==
    (result.op = "pre_save" /\ ~result.out.raised) =>
        LET out == result.out.data
        IN  /\ DOMAIN out \subseteq DOMAIN arg \cup EnrichedKeys
            /\ \A k \in DOMAIN arg \ EnrichedKeys : k \in DOMAIN out /\ out[k] = arg[k]
            /\ ~HasEmail(arg) => (out = arg /\ result.out.lookups = <<>>)
            /\ NonBlankEmail(arg) =>
                /\ result.out.lookups = <<Strip(arg["email"].s)>>
                /\ DOMAIN out = DOMAIN arg \cup EnrichedKeys
                /\ \A k \in EnrichedKeys : out[k] = EnrichmentOf(Strip(arg["email"].s))[k]

C9_Witness ==
    /\ result.op = "pre_save"
    /\ NonBlankEmail(arg)
    /\ arg["email"].s # Strip(arg["email"].s)
    /\ {"name", "city", "updated"} \cap DOMAIN arg # {}
    /\ Len(result.out.lookups) = 1

\* C10: with a blank email pre_save looks nothing up and returns data with
\* city, state and country set to '' and age set to 0, the rest unchanged
C10_BlankEmailClears ==
    (result.op = "pre_save" /\ BlankEmail(arg)) =>
        LET out == result.out.data
        IN  /\ ~result.out.raised
            /\ result.out.lookups = <<>>
            /\ DOMAIN out = DOMAIN arg \cup EnrichedKeys
            /\ out["city"] = StrV(<<>>)
            /\ out["state"] = StrV(<<>>)
            /\ out["country"] = StrV(<<>>)
            /\ out["age"] = IntV(0)
            /\ \A k \in DOMAIN arg \ EnrichedKeys : out[k] = arg[k]

(***************************************************************************)
(* Properties of the resources.                                            *)
(***************************************************************************)
\* a step in which the handler serves a request
Served == Idle /\ ~Idle'

Field(data, key) ==
    IF \E i \in 1..Len(data) : data[i][1] = key
    THEN data[CHOOSE i \in 1..Len(data) : data[i][1] = key][2]
    ELSE None
Keys(data) == [i \in 1..Len(data) |-> data[i][1]]

IsCreate(r) == r.method = "POST" /\ r.id = NoId
IsUpdate(r) == r.method \in {"PUT", "PATCH"} /\ r.id # NoId
IsList(r) == r.method = "GET" /\ r.id = NoId

\* what the claims call a value the email column rejects
RejectedEmail(body) ==
    /\ "email" \in DOMAIN body
    /\ \/ Email_input_error_for_value("email", body["email"]) # ""
       \/ EndsWith(body["email"].s, ExampleCom)

RejectedName(body) ==
    /\ "name" \in DOMAIN body
    /\ \/ ~IsStr(body["name"])
       \/ Strip(body["name"].s) = <<>>
       \/ Len(body["name"].s) > MaximumLength

\* C1: a create, or an update of an existing row, with a value a writeable
\* column's validator rejects leaves the stored rows as they were and answers
\* input_errors with a column -> message mapping
C1_ValidateThenPersist ==
    [][ (/\ Served
         /\ IsCreate(req') \/ (IsUpdate(req') /\ req'.id \in DOMAIN rows)
         /\ \/ RejectedEmail(req'.body)
            \/ RejectedName(req'.body)
            \/ IsCreate(req') /\ {"name", "email"} \ DOMAIN req'.body # {})
        => /\ rows' = rows
           /\ nextId' = nextId
           /\ calls'.writes = 0
           /\ resp'.status = "input_errors"
           /\ DOMAIN resp'.input_errors # {}
           /\ DOMAIN resp'.input_errors \subseteq {"name", "email"}
           /\ \A c \in DOMAIN resp'.input_errors : resp'.input_errors[c] # ""
           /\ RejectedEmail(req'.body) => "email" \in DOMAIN resp'.input_errors ]_vars

C1_Witness ==
    /\ IsUpdate(req)
    /\ req.id \in DOMAIN rows
    /\ "email" \in DOMAIN req.body
    /\ IsStr(req.body["email"])
    /\ EndsWith(req.body["email"].s, ExampleCom)
    /\ "name" \in DOMAIN req.body /\ ~RejectedName(req.body)
    /\ resp.status = "input_errors"
    /\ resp.input_errors["email"] = "Invalid email domain"

\* C2: on the secret-bearer protected resource a request without the secret,
\* whatever its method and path, ends Unauthenticated with no backend call
C2_AuthenticationGate ==
    [][ (Served /\ req'.token # Environment.users_authentication_secret)
        => /\ resp'.status = "failure"
           /\ resp'.error = "Unauthenticated"
           /\ resp'.data = <<>> /\ resp'.items = <<>>
           /\ calls'.reads = 0 /\ calls'.writes = 0 /\ calls'.lookups = <<>>
           /\ rows' = rows
           /\ nextId' = nextId ]_vars

C2_Witness ==
    /\ req.method = "DELETE"
    /\ req.id \in DOMAIN rows
    /\ req.token = "wrong"
    /\ resp.error = "Unauthenticated"

\* the same update applied once more, at clock value t
Again(t) == Handle(users_api, rows', nextId', req', t)

KeepsValue(before, after, k) ==
    /\ k \in DOMAIN before <=> k \in DOMAIN after
    /\ k \in DOMAIN before => after[k] = before[k]

AllFields == {"id", "name", "email", "city", "state", "country", "age", "created", "updated"}

\* the fields of an update the claim speaks of: those absent from the body,
\* the enriched ones among them only when the email is absent too
AbsentFields(body) ==
    {k \in AllFields \ DOMAIN body : k \in EnrichedKeys => "email" \notin DOMAIN body}

SuccessfulUpdate ==
    Served /\ IsUpdate(req') /\ req'.id \in DOMAIN rows /\ resp'.status = "success"

\* C3 as stated: every field absent from the body keeps its value, and the
\* update applied twice leaves what the update applied once leaves
C3_Original ==
    [][ SuccessfulUpdate =>
        /\ \A k \in AbsentFields(req'.body) : KeepsValue(rows[req'.id], rows'[req'.id], k)
        /\ \A t \in now'..MaxClock : Again(t).rows = rows' ]_vars

\* C3 (amended): every field absent from the body but 'updated' keeps its
\* value and 'updated' takes the clock's value; the update applied again
\* leaves every row as it is, but for the 'updated' of the row, which takes
\* the clock's value of the later application
C3_PartialUpdate ==
    [][ SuccessfulUpdate =>
        /\ \A k \in AbsentFields(req'.body) \ {"updated"} :
                KeepsValue(rows[req'.id], rows'[req'.id], k)
        /\ rows'[req'.id]["updated"] = Time(now)
        /\ \A i \in DOMAIN rows \ {req'.id} : rows'[i] = rows[i]
        /\ DOMAIN rows' = DOMAIN rows
        /\ \A t \in now'..MaxClock :
            /\ Again(t).resp.status = "success"
            /\ Again(t).rows = [rows' EXCEPT ![req'.id]["updated"] = Time(t)] ]_vars

C3_Witness ==
    /\ IsUpdate(req)
    /\ resp.status = "success"
    /\ DOMAIN req.body = {"name"}
    /\ "city" \in DOMAIN rows[req.id]
    /\ rows[req.id]["name"] # calls.loaded["name"]
    /\ calls.loaded["updated"] # rows[req.id]["updated"]

IdOf(data) == Field(data, "id").n

\* C4: a successful create or update with a non-blank email in the body leaves
\* in the row and in the response the city, state, country and age the lookup
\* answers for that email, and looks the email up even when it is the row's own
C4_Enrichment ==
    (/\ IsCreate(req) \/ IsUpdate(req)
     /\ resp.status = "success"
     /\ NonBlankEmail(req.body))
    => LET e == Strip(req.body["email"].s)
           id == IdOf(resp.data)
       IN  /\ calls.lookups = <<e>>
           /\ id \in DOMAIN rows
           /\ \A k \in EnrichedKeys :
                /\ k \in DOMAIN rows[id]
                /\ rows[id][k] = EnrichmentOf(e)[k]
                /\ Field(resp.data, k) = EnrichmentOf(e)[k]

C4_Witness ==
    /\ IsUpdate(req)
    /\ resp.status = "success"
    /\ NonBlankEmail(req.body)
    /\ calls.loaded["email"] = req.body["email"]
    /\ Len(calls.lookups) = 1

FetchOf(id) == Request("GET", id, EmptyMap, NoToken, NoParam, NoParam, EmptyMap)

\* C5: after a successful create the record fetched by the returned id has
\* the submitted name and email, an id no existing row had, and created and
\* updated both at the clock's value of the create, whatever the client sent
C5_CreateThenFetch ==
    [][ (Served /\ IsCreate(req') /\ resp'.status = "success") =>
        LET id == IdOf(resp'.data)
            fetched == Handle(users_api, rows', nextId', FetchOf(id), now').resp
        IN  /\ {"name", "email"} \subseteq DOMAIN req'.body
            /\ id \notin DOMAIN rows
            /\ DOMAIN rows' = DOMAIN rows \cup {id}
            /\ \A i \in DOMAIN rows : rows'[i] = rows[i]
            /\ fetched.status = "success"
            /\ Field(fetched.data, "id") = IntV(id)
            /\ Field(fetched.data, "name") = req'.body["name"]
            /\ Field(fetched.data, "email") = req'.body["email"]
            /\ Field(fetched.data, "created") = StrV(IsoFormat(now))
            /\ Field(fetched.data, "updated") = StrV(IsoFormat(now))
            /\ fetched.data = resp'.data ]_vars

C5_Witness ==
    /\ IsCreate(req)
    /\ resp.status = "success"
    /\ "created" \in DOMAIN req.body
    /\ now > 0
    /\ Field(resp.data, "created") # req.body["created"]
    /\ IdOf(resp.data) = 2

\* the order the tests expect of a data object
ExpectedKeys ==
    <<"id", "name", "email", "city", "state", "country", "age", "created", "updated">>

WellFormed(data) ==
    /\ Keys(data) = ExpectedKeys
    /\ IdOf(data) \in DOMAIN rows =>
        \A i \in 2..Len(data) :
            data[i][1] \notin DOMAIN rows[IdOf(data)] => data[i][2] = None

\* C6: in every success response each data object has its fields in the
\* columns' registration order, 'id' first, and a readable column with no
\* stored value is there with a null value
C6_FieldOrder ==
    (resp.status = "success" /\ req.method # "DELETE") =>
        /\ IsList(req) => \A i \in 1..Len(resp.items) : WellFormed(resp.items[i])
        /\ ~IsList(req) => WellFormed(resp.data)

C6_Witness ==
    /\ IsList(req)
    /\ resp.status = "success"
    /\ Len(resp.items) = 2
    /\ \E i \in 1..2 : Field(resp.items[i], "city") = None
    /\ \E i \in 1..2 : Field(resp.items[i], "city") # None

\* the rows a list request asks for, as the claim counts them
TotalCount ==
    Cardinality({i \in DOMAIN rows :
        \A k \in DOMAIN req.filter \cap {"name", "email"} : rows[i][k] = req.filter[k]})

StageIndex(stage) == CHOOSE i \in 1..Len(Stages) : Stages[i] = stage

\* the states a log enters, in the order it enters them
StagesOf(log) ==
    LET entries == SelectSeq(log, LAMBDA e : e.event = "enter")
    IN  [i \in 1..Len(entries) |-> entries[i].stage]

EntersStage(log, stage) == \E k \in DOMAIN log : log[k] = Enter(stage)[1]

\* the calls issued and not yet answered after the first k entries of a log
InFlight(log, k) ==
    Cardinality({i \in 1..k : log[i].event = "call"})
        - Cardinality({i \in 1..k : log[i].event \in {"return", "raise"}})

\* from ROUTE_RESOLUTION to RESPOND, each state entered later in the order than
\* the one before it, every call issued from the state the request is in
ForwardOnly(log) ==
    /\ log # <<>>
    /\ log[1] = Enter("ROUTE_RESOLUTION")[1]
    /\ log[Len(log)] = Enter("RESPOND")[1]
    /\ \A k \in 2..Len(log) :
          IF log[k].event = "enter"
          THEN StageIndex(log[k - 1].stage) < StageIndex(log[k].stage)
          ELSE log[k - 1].stage = log[k].stage

\* one call at a time, answered before the next is issued and before the
\* request advances
OneInFlight(log) ==
    \A k \in DOMAIN log :
        /\ InFlight(log, k) \in {0, 1}
        /\ log[k].event = "enter" => InFlight(log, k) = 0
        /\ log[k].event \in {"return", "raise"}
              => log[k - 1].event = "call" /\ log[k - 1].target = log[k].target

\* PERSIST is entered with VALIDATE behind it and, of a create or an update,
\* with the pre_save hook of every column returned
PersistAfterHooks(log, cfg, r) ==
    \A k \in DOMAIN log :
        log[k] = Enter("PERSIST")[1]
            => /\ \E i \in 1..(k - 1) : log[i] = Enter("VALIDATE")[1]
               /\ \A i \in 1..(k - 1) : log[i].event # "raise"
               /\ (IsCreate(r) \/ IsUpdate(r))
                    => \A c \in DOMAIN cfg.columns :
                          \E i \in 1..(k - 1) :
                              log[i] = [stage |-> "PRE_SAVE", event |-> "return",
                                        target |-> "pre_save:" \o cfg.columns[c].name]

\* POST_SAVE is entered with the backend's commit returned
PostSaveAfterCommit(log) ==
    \A k \in DOMAIN log :
        log[k] = Enter("POST_SAVE")[1]
            => \E i \in 1..(k - 1) :
                  /\ log[i].stage = "PERSIST"
                  /\ log[i].event = "return"
                  /\ log[i].target \in {"backend.create", "backend.update"}

\* the calls of the log are the calls the backend saw
LogMatchesCalls(log, c) ==
    /\ c.reads = Cardinality({k \in DOMAIN log :
                                /\ log[k].event = "call"
                                /\ log[k].target \in {"backend.read", "backend.query"}})
    /\ c.writes = Cardinality({k \in DOMAIN log :
                                /\ log[k].event = "call"
                                /\ log[k].target \in {"backend.create", "backend.update",
                                                      "backend.delete"}})

\* input the protected resource's validators reject
RejectedInput(r) ==
    \/ RejectedName(r.body)
    \/ "email" \in DOMAIN r.body /\ Email_input_error_for_value("email", r.body["email"]) # ""
    \/ "age" \in DOMAIN r.body /\ r.body["age"].t # "int"
    \/ IsCreate(r) /\ {"name", "email"} \ DOMAIN r.body # {}

Later == {"PRE_SAVE", "PERSIST", "POST_SAVE", "SERIALIZE"}

\* C11: a request passes the handler's states only forward, in the order
\* ROUTE_RESOLUTION .. RESPOND, with one backend or hook call in flight at a
\* time; PERSIST comes after VALIDATE and the returned pre_save hooks,
\* POST_SAVE after the commit; a request without the secret goes from
\* AUTHENTICATE to RESPOND, one with rejected input from VALIDATE to RESPOND,
\* one for a row that is not there never reaches VALIDATE, and none of the
\* three changes a row
C11_StagesForward ==
    [][ Served =>
        LET log == calls'.log
            stages == StagesOf(log)
            authentic == req'.token = Environment.users_authentication_secret
        IN  /\ ForwardOnly(log)
            /\ OneInFlight(log)
            /\ PersistAfterHooks(log, secure_users_api, req')
            /\ PostSaveAfterCommit(log)
            /\ LogMatchesCalls(log, calls')
            /\ ~EntersStage(log, "PERSIST") => rows' = rows /\ nextId' = nextId
            /\ ~authentic
                 => /\ stages = <<"ROUTE_RESOLUTION", "AUTHENTICATE", "RESPOND">>
                    /\ Len(log) = 3
            /\ (/\ authentic
                /\ IsCreate(req') \/ (IsUpdate(req') /\ req'.id \in DOMAIN rows)
                /\ RejectedInput(req'))
                 => /\ stages[Len(stages) - 1] = "VALIDATE"
                    /\ Range(stages) \cap Later = {}
                    /\ \A k \in DOMAIN log : log[k].stage \notin Later
            /\ (authentic /\ req'.id # NoId /\ req'.id \notin DOMAIN rows)
                 => /\ Range(stages) \cap ({"VALIDATE"} \cup Later) = {}
                    /\ resp'.status = "failure" ]_vars

\* a create that passes every state of the handler
C11_Witness ==
    /\ IsCreate(req)
    /\ req.token = Environment.users_authentication_secret
    /\ resp.status = "success"
    /\ StagesOf(calls.log) = Stages
    /\ InFlight(calls.log, Len(calls.log)) = 0
    /\ \E k \in DOMAIN calls.log : calls.log[k].target = "backend.create"


(***************************************************************************)
(* Properties of a request in which a call fails.                          *)
(***************************************************************************)
\* a create or an update with input the business resource accepts
ValidWrite(r, table) ==
    /\ \/ IsCreate(r) /\ {"name", "email"} \subseteq DOMAIN r.body
       \/ IsUpdate(r) /\ r.id \in DOMAIN table
    /\ ~RejectedEmail(r.body)
    /\ ~RejectedName(r.body)

SeedOf(r) == Strip(r.body["email"].s)

\* the request reaches the email column's pre_save with a seed the lookup
\* fails on
HookFails(r, table) ==
    /\ ValidWrite(r, table)
    /\ IsCreate(r) \/ r.backend # "down"
    /\ "email" \in DOMAIN r.body
    /\ SeedOf(r) \in FaultySeeds

\* the request reaches a backend call that raises: the first call to a backend
\* that is down, the commit to one that is read-only
ReadFails(r) == r.backend = "down" /\ Route(r.method, r.id) \in {"list", "fetch", "update", "delete"}
CommitFails(r, table) ==
    /\ r.backend # "up"
    /\ ~ReadFails(r)
    /\ \/ ValidWrite(r, table) /\ ~HookFails(r, table)
       \/ r.method = "DELETE" /\ r.id \in DOMAIN table

GenericFailure(response) ==
    /\ response.status = "failure"
    /\ response.code = 500
    /\ response.error = ""
    /\ response.data = <<>> /\ response.items = <<>>
    /\ response.input_errors = NoErrors
    /\ response.pagination = NoPagination

\* the log holds one call that raised, made once, and RESPOND right after it
RaisedOnce(log) ==
    /\ Len(log) > 2
    /\ log[Len(log)] = Enter("RESPOND")[1]
    /\ log[Len(log) - 1].event = "raise"
    /\ Cardinality({k \in DOMAIN log : log[k].event = "raise"}) = 1
    /\ Cardinality({k \in DOMAIN log :
                        /\ log[k].event = "call"
                        /\ log[k].target = log[Len(log) - 1].target}) = 1

\* C12: a request in which the enrichment lookup of BusinessEmail.pre_save
\* raises or answers without the expected keys, or in which a backend call
\* raises, ends with the generic failure envelope; the failed call is made
\* once, every request ends with an envelope, and a failure in pre_save
\* leaves the rows as they were, with no commit issued
C12_FailureEnvelope ==
    [][ Served =>
        /\ resp'.status \in {"success", "input_errors", "failure"}
        /\ HookFails(req', rows)
             => /\ GenericFailure(resp')
                /\ RaisedOnce(calls'.log)
                /\ calls'.log[Len(calls'.log) - 1].target = "pre_save:email"
                /\ calls'.lookups = <<SeedOf(req')>>
                /\ calls'.writes = 0
                /\ ~EntersStage(calls'.log, "PERSIST")
                /\ rows' = rows
                /\ nextId' = nextId
        /\ (ReadFails(req') \/ CommitFails(req', rows))
             => /\ GenericFailure(resp')
                /\ RaisedOnce(calls'.log)
                /\ calls'.reads + calls'.writes <= 2
                /\ Len(calls'.lookups) <= 1
                /\ rows' = rows
                /\ nextId' = nextId ]_vars

\* an update whose lookup answers with an error document
C12_Witness ==
    /\ IsUpdate(req)
    /\ req.id \in DOMAIN rows
    /\ req.backend = "up"
    /\ "email" \in DOMAIN req.body
    /\ req.body["email"] = StrV(ErrorSeed)
    /\ GenericFailure(resp)
    /\ calls.lookups = <<ErrorSeed>>

====
